---------------------------- MODULE Spec2Model ----------------------------
(***************************************************************************)
(* PyTables2RootTTree: conversion of HDF5/pytables tables to ROOT TTrees.  *)
(*                                                                         *)
(* The module models convert_table() of the three source files of the      *)
(* repository as one sequential process:                                   *)
(*   "ct"  : PyTables2RootTTree/convert_table.py      (names filter,       *)
(*           .copy(), Write("", TObject.kOverwrite), n_entries/L)          *)
(*   "pkg" : PyTables2RootTTree/PyTables2RootTTree.py (no filter,          *)
(*           np.ascontiguousarray, Write(), n_entries/I)                   *)
(*   "old" : PyTables2RootTTree.py                    (length branch only  *)
(*           for chunk_size > 1, 9 types, Write())                         *)
(* Memory is modelled at the level the code works on: a column of a chunk  *)
(* is a flat buffer of bytes, a branch holds an address, and TTree.Fill    *)
(* reads from the addresses with the element width of the ROOT type code.  *)
(***************************************************************************)
EXTENDS Integers, Sequences, FiniteSets, TLC

(***************************************************************************)
(* Bounds of the model.                                                    *)
(***************************************************************************)
MaxRows == 3
MaxChunk == 2
MaxPathLen == 3
MaxAutoSave == 1

(***************************************************************************)
(* Generic helpers.                                                        *)
(***************************************************************************)
Range(s) == {s[i] : i \in 1..Len(s)}

Min(a, b) == IF a <= b THEN a ELSE b

RECURSIVE Flatten(_)
Flatten(ss) == IF ss = <<>> THEN <<>> ELSE Head(ss) \o Flatten(Tail(ss))

Take(s, n) == SubSeq(s, 1, Min(n, Len(s)))

\* The elements of a flat byte buffer: n elements of w bytes each.
Elements(bytes, w, n) == [i \in 1..n |-> SubSeq(bytes, (i - 1) * w + 1, i * w)]

(***************************************************************************)
(* Scalar types.                                                           *)
(***************************************************************************)
KeyError == "KeyError"

\* The dict lookup with a default: dict.get(key, 'D') instead of dict[key], so
\* that a type the table does not hold is taken for a double.
get_root_type_descriptor_default(numpy_type_descriptor) ==
    CASE numpy_type_descriptor = "int64" -> "L"
      [] numpy_type_descriptor = "uint64" -> "l"
      [] numpy_type_descriptor = "int32" -> "I"
      [] numpy_type_descriptor = "uint32" -> "i"
      [] numpy_type_descriptor = "int16" -> "S"
      [] numpy_type_descriptor = "uint16" -> "s"
      [] numpy_type_descriptor = "int8" -> "B"
      [] numpy_type_descriptor = "uint8" -> "b"
      [] numpy_type_descriptor = "float64" -> "D"
      [] numpy_type_descriptor = "float32" -> "F"
      [] numpy_type_descriptor = "bool" -> "O"
      [] OTHER -> "D"

\* convert_table.py, PyTables2RootTTree/PyTables2RootTTree.py: the dict lookup;
\* a key that is not in the dict raises KeyError.
get_root_type_descriptor(numpy_type_descriptor) ==
    CASE numpy_type_descriptor = "int64" -> "L"
      [] numpy_type_descriptor = "uint64" -> "l"
      [] numpy_type_descriptor = "int32" -> "I"
      [] numpy_type_descriptor = "uint32" -> "i"
      [] numpy_type_descriptor = "int16" -> "S"
      [] numpy_type_descriptor = "uint16" -> "s"
      [] numpy_type_descriptor = "int8" -> "B"
      [] numpy_type_descriptor = "uint8" -> "b"
      [] numpy_type_descriptor = "float64" -> "D"
      [] numpy_type_descriptor = "float32" -> "F"
      [] numpy_type_descriptor = "bool" -> "O"
      [] OTHER -> KeyError

\* PyTables2RootTTree.py: nine entries, 'float64' mapped to 'd'.
get_root_type_descriptor_old(numpy_type_descriptor) ==
    CASE numpy_type_descriptor = "int64" -> "L"
      [] numpy_type_descriptor = "uint64" -> "l"
      [] numpy_type_descriptor = "int32" -> "I"
      [] numpy_type_descriptor = "uint32" -> "i"
      [] numpy_type_descriptor = "int16" -> "S"
      [] numpy_type_descriptor = "uint16" -> "s"
      [] numpy_type_descriptor = "int8" -> "B"
      [] numpy_type_descriptor = "uint8" -> "b"
      [] numpy_type_descriptor = "float64" -> "d"
      [] OTHER -> KeyError

TypeCode(v, dtype) ==
    IF v = "old" THEN get_root_type_descriptor_old(dtype)
    ELSE get_root_type_descriptor(dtype)

\* The eleven scalar types of the type table of convert_table.py.
SupportedTypes ==
    {"int64", "uint64", "int32", "uint32", "int16", "uint16", "int8", "uint8",
     "float64", "float32", "bool"}

\* The width in bytes of one element of a numpy array of the type, which is
\* the width of the ctypes type get_c_type_descriptor gives it ("float16": 2).
get_c_type_descriptor(numpy_type_descriptor) ==
    CASE numpy_type_descriptor \in {"int64", "uint64", "float64"} -> 8
      [] numpy_type_descriptor \in {"int32", "uint32", "float32"} -> 4
      [] numpy_type_descriptor \in {"int16", "uint16", "float16"} -> 2
      [] OTHER -> 1

\* The kind of a numpy type: signed, unsigned, floating point, boolean.
NumpyKind(dtype) ==
    CASE dtype \in {"int64", "int32", "int16", "int8"} -> "i"
      [] dtype \in {"uint64", "uint32", "uint16", "uint8"} -> "u"
      [] dtype \in {"float64", "float32", "float16"} -> "f"
      [] OTHER -> "b"

\* The width in bytes that ROOT reads per element for a leaf of the type code.
RootWidth(code) ==
    CASE code \in {"L", "l", "D", "d"} -> 8
      [] code \in {"I", "i", "F"} -> 4
      [] code \in {"S", "s"} -> 2
      [] OTHER -> 1

RootKind(code) ==
    CASE code \in {"L", "I", "S", "B"} -> "i"
      [] code \in {"l", "i", "s", "b"} -> "u"
      [] code \in {"D", "F", "d"} -> "f"
      [] OTHER -> "b"

\* Double32_t ('d') is a double in memory that is stored as a float: what is
\* read back is the double rounded to float precision. 0.1 is the one sample
\* value that the rounding changes.
Double32(bytes) ==
    IF bytes = <<154, 153, 153, 153, 153, 153, 185, 63>>
    THEN <<0, 0, 0, 160, 153, 153, 185, 63>>
    ELSE bytes

\* What a leaf of the type code stores of the w bytes it read.
Stored(code, bytes) == IF code = "d" THEN Double32(bytes) ELSE bytes

(***************************************************************************)
(* Sample values, as the little-endian bytes of one element.               *)
(***************************************************************************)
Samples(dtype) ==
    CASE dtype = "int8" -> << <<1>>, <<255>>, <<2>> >>
      [] dtype = "uint8" -> << <<1>>, <<255>>, <<0>> >>
      [] dtype = "bool" -> << <<0>>, <<1>>, <<1>> >>
      [] dtype = "int16" -> << <<1, 0>>, <<255, 255>>, <<0, 1>> >>
      [] dtype = "uint16" -> << <<2, 0>>, <<255, 255>>, <<0, 1>> >>
      [] dtype = "float16" -> << <<0, 60>>, <<0, 192>>, <<0, 0>> >>
      [] dtype = "int32" -> << <<1, 0, 0, 0>>, <<255, 255, 255, 255>>, <<0, 0, 1, 0>> >>
      [] dtype = "uint32" -> << <<3, 0, 0, 0>>, <<255, 255, 255, 255>>, <<0, 0, 0, 1>> >>
      [] dtype = "float32" -> << <<0, 0, 128, 63>>, <<0, 0, 0, 192>>, <<205, 204, 204, 61>> >>
      [] dtype = "int64" ->
           << <<1, 0, 0, 0, 0, 0, 0, 0>>, <<2, 0, 0, 0, 0, 0, 0, 0>>,
              <<255, 255, 255, 255, 255, 255, 255, 255>> >>
      [] dtype = "uint64" ->
           << <<1, 0, 0, 0, 0, 0, 0, 0>>, <<255, 255, 255, 255, 255, 255, 255, 255>>,
              <<0, 0, 0, 0, 1, 0, 0, 0>> >>
      [] OTHER ->
           << <<0, 0, 0, 0, 0, 0, 240, 63>>, <<154, 153, 153, 153, 153, 153, 185, 63>>,
              <<0, 0, 0, 0, 0, 0, 0, 192>> >>

\* Element i (from 1) of column j of a table: the samples of the column's type
\* in turn, shifted by the column's position.
ValueAt(dtype, i, j) == Samples(dtype)[((i + j) % 3) + 1]

\* Column j of the source table, one element per row.
ColumnData(table, j) ==
    [i \in 1..table.nrows |-> ValueAt(table.cols[j].dtype, i, j)]

\* table.dtype.names
ColumnNames(table) == [j \in 1..Len(table.cols) |-> table.cols[j].name]

\* The position of the column of that name (column names are unique).
ColumnIndex(table, name) ==
    CHOOSE j \in 1..Len(table.cols) : table.cols[j].name = name

(***************************************************************************)
(* File names: a string is a sequence of characters.                       *)
(***************************************************************************)
RECURSIVE RFind(_, _)
\* str.rfind, from 1; 0 when the character does not occur.
RFind(p, c) ==
    IF p = <<>> THEN 0
    ELSE IF p[Len(p)] = c THEN Len(p)
    ELSE RFind(SubSeq(p, 1, Len(p) - 1), c)

\* os.path.splitext (posixpath): the extension starts at the last dot of the
\* last path component; leading dots of the component do not start one.
splitext(p) ==
    LET sepIndex == RFind(p, "/")
        dotIndex == RFind(p, ".")
    IN  IF /\ dotIndex > sepIndex
           /\ \E k \in (sepIndex + 1)..(dotIndex - 1) : p[k] # "."
        THEN <<SubSeq(p, 1, dotIndex - 1), SubSeq(p, dotIndex, Len(p))>>
        ELSE <<p, <<>> >>

RECURSIVE strip(_)
\* str.strip(): white space removed at both ends.
strip(s) ==
    IF s = <<>> THEN s
    ELSE IF Head(s) = " " THEN strip(Tail(s))
    ELSE IF s[Len(s)] = " " THEN strip(SubSeq(s, 1, Len(s) - 1))
    ELSE s

LowerChar(c) ==
    CASE c = "H" -> "h"
      [] c = "R" -> "r"
      [] c = "O" -> "o"
      [] c = "T" -> "t"
      [] OTHER -> c

\* str.lower()
lower(s) == [i \in 1..Len(s) |-> LowerChar(s[i])]

ExtH5 == <<".", "h", "5">>

ExtRoot == <<".", "r", "o", "o", "t">>

NoPath == [given |-> FALSE, path |-> <<>>]

GivenPath(p) == [given |-> TRUE, path |-> p]

\* convert_table without .lower(): the extension is compared as written.
ResolveInput_case_sensitive(input_filename0) ==
    IF strip(splitext(input_filename0)[2]) # ExtH5
    THEN [base |-> input_filename0, input |-> input_filename0 \o ExtH5]
    ELSE [base |-> splitext(input_filename0)[1], input |-> input_filename0]

\* convert_table: the input file name and the base name of the default output.
ResolveInput(input_filename0) ==
    IF lower(strip(splitext(input_filename0)[2])) # ExtH5
    THEN [base |-> input_filename0, input |-> input_filename0 \o ExtH5]
    ELSE [base |-> splitext(input_filename0)[1], input |-> input_filename0]

\* convert_table: the output file name.
ResolveOutput(base_filename, output_filename0) ==
    IF ~output_filename0.given
    THEN base_filename \o ExtRoot
    ELSE IF lower(strip(splitext(output_filename0.path)[2])) # ExtRoot
         THEN output_filename0.path \o ExtRoot
         ELSE output_filename0.path

(***************************************************************************)
(* The names argument.                                                     *)
(***************************************************************************)
NoNames == [kind |-> "none", items |-> <<>>]

\* convert_table: a names argument that is neither a list nor a tuple (a
\* single name: kind "str", the name is items[1]) becomes the list holding it.
NormalizeNames(names0) ==
    IF names0.kind \notin {"list", "tuple"} /\ names0.kind # "none"
    THEN [kind |-> "list", items |-> <<names0.items[1]>>]
    ELSE names0

\* The filter with the membership test inverted: "table.name in names".
Skipped_inverted(names1, table) ==
    names1.kind # "none" /\ table.name \in Range(names1.items)

\* convert_table: "names is not None and table.name not in names"
Skipped(names1, table) ==
    names1.kind # "none" /\ table.name \notin Range(names1.items)

(***************************************************************************)
(* The inputs: source containers, arguments.                               *)
(***************************************************************************)
Col(n, t) == [name |-> n, dtype |-> t]

Table(n, cols, r) == [name |-> n, cols |-> cols, nrows |-> r]

OneColumn == { <<Col("x", t)>> : t \in SupportedTypes }

XY == <<Col("x", "int32"), Col("y", "float64")>>

TwoColumns == { XY, <<Col("x", "uint8"), Col("y", "bool")>> }

\* Column lists with a column named like the length branch.
Colliding ==
    { <<Col("n_entries", "int64")>>,
      <<Col("x", "int8"), Col("n_entries", "int64")>>,
      <<Col("n_entries", "int16"), Col("y", "int32")>> }

\* Column lists with a column of a type that no type table holds.
Unmapped ==
    { <<Col("x", "float16")>>, <<Col("x", "int32"), Col("y", "float16")>> }

ColumnLists == OneColumn \cup TwoColumns \cup Colliding \cup Unmapped

FewColumnLists ==
    { XY, <<Col("x", "int16")>>, <<Col("x", "int32"), Col("y", "float16")>> }

\* The source containers: the tables of the top-level group, in the order
\* iter_nodes yields them.
Containers ==
    { <<Table("A", cl, r)>> : cl \in ColumnLists, r \in 0..MaxRows }
    \cup { <<Table("A", ca, r), Table("B", cb, MaxRows - r)>> :
             ca \in FewColumnLists, cb \in FewColumnLists, r \in 0..MaxRows }
    \cup { <<Table("A", XY, 1), Table("B", <<Col("x", "int16")>>, r),
             Table("C", <<Col("x", "bool")>>, 2)>> : r \in 0..MaxRows }
    \cup { <<>> }

\* The names arguments: None, a single name, lists and a tuple of names.
NamesArgs ==
    { NoNames,
      [kind |-> "str", items |-> <<"A">>],
      [kind |-> "str", items |-> <<"Z">>],
      [kind |-> "list", items |-> <<"B">>],
      [kind |-> "list", items |-> <<"A", "C">>],
      [kind |-> "tuple", items |-> <<"B", "Z">>],
      [kind |-> "list", items |-> <<>>] }

\* chunk_size: the valid sizes, zero and a negative size.
ChunkSizes == (-1)..MaxChunk

Variants == {"ct", "pkg", "old"}

PathChars == {"a", ".", "/", " ", "h", "H", "5"}

RECURSIVE Strings(_)
\* The strings of at most n characters.
Strings(n) ==
    IF n = 0 THEN { <<>> }
    ELSE LET shorter == Strings(n - 1)
         IN  shorter \cup { Append(s, c) : s \in shorter, c \in PathChars }

Input == <<"i", "n", "p", "u", "t">>

InputPaths ==
    (Strings(MaxPathLen) \ { <<>> })
    \cup { Input, Input \o ExtH5, Input \o <<".", "H", "5">>,
           Input \o <<".", "h", "5", " ">>, Input \o <<".", "t", "x", "t">>,
           <<"d", ".", "h", "5", "/">> \o Input }

OutputPaths ==
    { NoPath, GivenPath(<<"o">>), GivenPath(<<"o">> \o ExtRoot),
      GivenPath(<<"o", ".", "R", "O", "O", "T">>),
      GivenPath(<<"o">> \o ExtRoot \o <<" ">>),
      GivenPath(<<"o">> \o ExtH5), GivenPath(ExtRoot),
      GivenPath(<<"o", ".", "r", "o", "o">>),
      GivenPath(<<"o", ".", "t", "x", "t">>) }

(***************************************************************************)
(* State.                                                                  *)
(***************************************************************************)
VARIABLES
    variant,          \* which source file's convert_table runs
    args,             \* the arguments: input_filename, output_filename, names, chunk_size
    h5,               \* the source container
    h5files,          \* the paths at which the source container exists
    disk,             \* the ROOT file at the output path: exists, keys
    run,              \* convert_table is running for the run-th time
    pc,               \* the position in convert_table
    err,              \* the exception that ended the run, "" for none
    input_filename,   \* local variables of convert_table
    output_filename,
    names,
    in_open,          \* in_file_h5: "never", "open", "closed"
    out_open,         \* out_file_root: "never", "open", "closed"
    tblIdx,           \* position of the table loop in the container
    tree,             \* the TTree of the current table
    dir,              \* the earlier TTrees still in the TFile's list of objects
    n_entries,        \* the ctypes variable of the length branch: <<value>>, <<>> for None
    index,            \* the chunk loop's index
    hits,             \* the chunk read last: start, n rows
    column_data,      \* the dict of the chunk's column buffers
    bindIdx,          \* position of the column loop
    autosaves,        \* number of AutoSaves of the run so far
    first,            \* the keys the first run left in the ROOT file
    junk              \* what undefined memory holds in this run, <<>> while unread

vars ==
    <<variant, args, h5, h5files, disk, run, pc, err, input_filename,
      output_filename, names, in_open, out_open, tblIdx, tree, dir, n_entries,
      index, hits, column_data, bindIdx, autosaves, first, junk>>

inputs == <<variant, args, h5, h5files>>

NoTree == [name |-> "", branches |-> <<>>, entries |-> <<>>]

NoHits == [start |-> 0, n |-> 0]

NoData == <<>>

\* A ROOT file left at the output path by an earlier program.
StaleFile ==
    [exists |-> TRUE,
     keys |-> << [name |-> "stale", cycle |-> 1, branches |-> <<>>, entries |-> <<>>] >>]

NoFile == [exists |-> FALSE, keys |-> <<>>]

\* The local state of convert_table before its first statement.
Fresh ==
    /\ pc = "start"
    /\ err = ""
    /\ input_filename = <<>>
    /\ output_filename = <<>>
    /\ names = NoNames
    /\ in_open = "never"
    /\ out_open = "never"
    /\ tblIdx = 1
    /\ tree = NoTree
    /\ dir = <<>>
    /\ n_entries = <<>>
    /\ index = 0
    /\ hits = NoHits
    /\ column_data = NoData
    /\ bindIdx = 1
    /\ autosaves = 0
    /\ junk = <<>>

\* The names arguments a container is converted with: every one for a
\* container of several tables, three of them for a container of one table.
NamesFor(v, container) ==
    IF v # "ct" THEN { NoNames }
    ELSE IF Len(container) > 1 THEN NamesArgs
    ELSE { NoNames, [kind |-> "str", items |-> <<"A">>],
           [kind |-> "list", items |-> <<"B">>] }

\* The input file names, each with the file that is at the output path before
\* the run; the source container exists as a.h5 only.
Calls ==
    { [input |-> <<"a">>, disk |-> NoFile],
      [input |-> <<"a">> \o ExtH5, disk |-> StaleFile],
      [input |-> <<"b">>, disk |-> NoFile] }

Init ==
    /\ variant \in Variants
    /\ h5 \in Containers
    /\ h5files = { <<"a">> \o ExtH5 }
    /\ \E c \in Calls :
         /\ args \in [input_filename : { c.input },
                      output_filename : { NoPath },
                      names : NamesFor(variant, h5),
                      chunk_size : ChunkSizes]
         /\ disk = c.disk
    /\ run = 1
    /\ first = <<>>
    /\ Fresh

(***************************************************************************)
(* TTree, branches, addresses.                                             *)
(***************************************************************************)
\* Address 0: the leaf keeps a buffer of its own, which nothing initializes.
NullAddr == [k |-> "null", col |-> "", chunk |-> 0]

\* ctypes.addressof(n_entries)
VarAddr == [k |-> "var", col |-> "", chunk |-> 0]

\* column_data[col].data, of the chunk that starts at row chunk
BufAddr(col, chunk) == [k |-> "buf", col |-> col, chunk |-> chunk]

\* tree.Branch('n_entries', ctypes.addressof(n_entries), 'n_entries/L'), or /I
LengthBranch(v) ==
    [name |-> "n_entries", code |-> IF v = "ct" THEN "L" ELSE "I",
     counted |-> FALSE, role |-> "len", addr |-> VarAddr]

\* tree.Branch(column_name, 0, column_name + '[n_entries]/' + code), or
\* column_name + '/' + code
ColumnBranch(v, col, counted) ==
    [name |-> col.name, code |-> TypeCode(v, col.dtype),
     counted |-> counted, role |-> "data", addr |-> NullAddr]

\* The first column whose type the type table does not hold; 0 for none.
FirstUnmapped(v, table) ==
    LET bad == {j \in 1..Len(table.cols) : TypeCode(v, table.cols[j].dtype) = KeyError}
    IN  IF bad = {} THEN 0 ELSE CHOOSE j \in bad : \A k \in bad : j <= k

\* init_tree_from_table: the tree, the length branch, one branch per column in
\* the table's order; KeyError at the first column the type table does not
\* hold, with the branches made so far. The oldest file makes the length
\* branch (and counted leaves) only for chunk_size > 1.
init_tree_from_table(v, table, chunk_size) ==
    LET hasLen == v # "old" \/ chunk_size > 1
        bad == FirstUnmapped(v, table)
        m == IF bad = 0 THEN Len(table.cols) ELSE bad - 1
    IN  [raised |-> bad # 0,
         tree |-> [name |-> table.name,
                   branches |-> (IF hasLen THEN <<LengthBranch(v)>> ELSE <<>>)
                                \o [j \in 1..m |-> ColumnBranch(v, table.cols[j], hasLen)],
                   entries |-> <<>>],
         n_entries |-> IF ~hasLen THEN <<>>
                       ELSE IF v = "old" THEN <<chunk_size>> ELSE <<0>>]

\* TTree::GetBranch: the first branch of that name.
GetBranch(t, name) ==
    CHOOSE b \in 1..Len(t.branches) :
        /\ t.branches[b].name = name
        /\ \A c \in 1..(b - 1) : t.branches[c].name # name

\* table.read(start=index, stop=index + chunk_size): the rows there are.
ReadRows(table, start, chunk_size) ==
    [start |-> start, n |-> Min(start + chunk_size, table.nrows) - start]

\* hits[name]: the chunk's elements of the column.
HitsColumn(table, h, name) ==
    SubSeq(ColumnData(table, ColumnIndex(table, name)), h.start + 1, h.start + h.n)

\* Whether hits[name] is contiguous memory: a table of one column, or a chunk
\* of at most one row.
Contiguous(table, h) == Len(table.cols) = 1 \/ h.n <= 1

\* hits[column_name].copy(), a new buffer; np.ascontiguousarray(hits[name]) in
\* the two older files, which copies only what is not contiguous.
CopyColumn(v, table, h, name) ==
    [bytes |-> Flatten(HitsColumn(table, h, name)),
     chunk |-> h.start,
     view |-> v # "ct" /\ Contiguous(table, h)]

\* The names the column loop visits: table.dtype.names; the branches of the
\* tree in the oldest file.
BindTargets(v, table, t) ==
    IF v = "old" THEN [i \in 1..Len(t.branches) |-> t.branches[i].name]
    ELSE ColumnNames(table)

\* The branch whose address the column loop sets at position i.
BindBranch(v, t, name, i) == IF v = "old" THEN i ELSE GetBranch(t, name)

\* n_entries after "n_entries.value = hits.shape[0]"; in the oldest file after
\* "if index + chunk_size > table.shape[0]: chunk_size_tree.value = ...".
NewLength(v, ne, h, table, chunk_size) ==
    IF v # "old" THEN <<h.n>>
    ELSE IF h.start + chunk_size > table.nrows THEN <<table.nrows - h.start>>
    ELSE ne

(***************************************************************************)
(* TTree.Fill                                                              *)
(***************************************************************************)
Huge == 256 * 256 * 256

\* A signed little-endian integer as a count: -1 for every negative value,
\* Huge for every value from Huge on.
DecodeCount(bytes) ==
    IF bytes[Len(bytes)] >= 128 THEN -1
    ELSE IF \E i \in 4..Len(bytes) : bytes[i] # 0 THEN Huge
    ELSE bytes[1] + 256 * (IF Len(bytes) >= 2 THEN bytes[2] ELSE 0)
                  + 256 * 256 * (IF Len(bytes) >= 3 THEN bytes[3] ELSE 0)

\* What memory that holds no defined value can hold: the count a length leaf
\* reads there, the byte a data leaf reads there.
GarbageCounts == {0, 1, Huge}

Junk == [count : GarbageCounts, byte : {0, 255}]

HasLength(t) == \E b \in 1..Len(t.branches) : t.branches[b].role = "len"

LengthIndex(t) == CHOOSE b \in 1..Len(t.branches) : t.branches[b].role = "len"

DataBranches(t) == SelectSeq(t.branches, LAMBDA b : b.role = "data")

\* Whether the address is that of a buffer the dict of the chunk holds.
Live(addr, cd) ==
    /\ addr.k = "buf"
    /\ addr.col \in DOMAIN cd
    /\ cd[addr.col].chunk = addr.chunk

\* Whether the length leaf reads a defined value at its address: the ctypes
\* variable, or a buffer that holds as many bytes as the leaf is wide.
LengthDefined(t, cd) ==
    LET b == t.branches[LengthIndex(t)]
    IN  \/ b.addr.k = "var"
        \/ Live(b.addr, cd) /\ Len(cd[b.addr.col].bytes) >= RootWidth(b.code)

\* The value the length leaf reads at its address; <<>> without a length branch.
LengthRead(t, ne, cd, j) ==
    IF ~HasLength(t) THEN <<>>
    ELSE LET b == t.branches[LengthIndex(t)]
         IN  IF b.addr.k = "var" THEN ne
             ELSE IF LengthDefined(t, cd)
             THEN <<DecodeCount(Take(cd[b.addr.col].bytes, RootWidth(b.code)))>>
             ELSE <<j.count>>

\* The number of elements a data leaf reads: the length leaf's value for a
\* counted leaf, 1 for a scalar leaf.
LeafCount(b, len) == IF b.counted /\ len # <<>> THEN len[1] ELSE 1

\* Whether the read of c elements at the branch's address stays in a buffer
\* that holds the data.
Defined(b, c, cd) ==
    Live(b.addr, cd) /\ c * RootWidth(b.code) <= Len(cd[b.addr.col].bytes)

\* The array a data leaf reads: the buffer's elements where the read is
\* defined; otherwise what the buffer holds, then garbage (at most MaxRows + 1
\* elements are kept of such an array).
ArrayRead(b, c, cd, j) ==
    LET w == RootWidth(b.code)
        kept == Min(c, MaxRows + 1)
    IN  IF c <= 0 THEN <<>>
        ELSE IF Defined(b, c, cd)
        THEN [i \in 1..c |-> Stored(b.code, Elements(cd[b.addr.col].bytes, w, c)[i])]
        ELSE LET have == IF Live(b.addr, cd) THEN Len(cd[b.addr.col].bytes) \div w ELSE 0
                 valid == IF have = 0 THEN <<>>
                          ELSE Elements(cd[b.addr.col].bytes, w, Min(have, kept))
             IN  [i \in 1..kept |->
                    IF i <= Len(valid) THEN Stored(b.code, valid[i])
                    ELSE [x \in 1..w |-> j.byte]]

\* The record a fill commits: the length, the array of every data branch.
FillRecord(t, ne, cd, j) ==
    LET len == LengthRead(t, ne, cd, j)
        data == DataBranches(t)
    IN  [len |-> len,
         arrays |-> [i \in 1..Len(data) |->
                       ArrayRead(data[i], LeafCount(data[i], len), cd, j)]]

\* Whether the fill reads memory that holds no defined value.
ReadsGarbage(t, ne, cd, j) ==
    \/ HasLength(t) /\ ~LengthDefined(t, cd)
    \/ \E i \in 1..Len(DataBranches(t)) :
         LET b == DataBranches(t)[i]
             c == LeafCount(b, LengthRead(t, ne, cd, j))
         IN  c > 0 /\ ~Defined(b, c, cd)

\* Whether the fill reads past the end of a buffer, which can end the process.
ReadsOutside(t, ne, cd, j) ==
    \/ HasLength(t) /\ ~LengthDefined(t, cd)
    \/ \E i \in 1..Len(DataBranches(t)) :
         LET b == DataBranches(t)[i]
             c == LeafCount(b, LengthRead(t, ne, cd, j))
         IN  b.addr.k = "buf" /\ c > 0 /\ ~Defined(b, c, cd)

\* TTree.Fill: what the fill can do. Memory without a defined value holds the
\* same garbage for the whole run (jk, <<>> until it is first read).
FillOutcomes(t, ne, cd, jk) ==
    UNION { { [crash |-> FALSE, rec |-> FillRecord(t, ne, cd, j),
               junk |-> IF ReadsGarbage(t, ne, cd, j) THEN <<j>> ELSE jk] }
            \cup (IF ReadsOutside(t, ne, cd, j)
                  THEN { [crash |-> TRUE, rec |-> [len |-> <<>>, arrays |-> <<>>],
                          junk |-> <<j>>] }
                  ELSE {}) :
            j \in IF jk = <<>> THEN Junk ELSE { jk[1] } }

(***************************************************************************)
(* TFile keys.                                                             *)
(***************************************************************************)
MaxCycle(keys, name) ==
    LET cs == { keys[i].cycle : i \in { k \in 1..Len(keys) : keys[k].name = name } }
    IN  IF cs = {} THEN 0 ELSE CHOOSE c \in cs : \A d \in cs : d <= c

Key(keys, t) ==
    [name |-> t.name, cycle |-> MaxCycle(keys, t.name) + 1,
     branches |-> [i \in 1..Len(t.branches) |->
                     [name |-> t.branches[i].name, code |-> t.branches[i].code,
                      role |-> t.branches[i].role]],
     entries |-> t.entries]

\* The tree written as a new cycle, the cycles before it kept.
WriteKeep(keys, t) == Append(keys, Key(keys, t))

\* The tree written as a new cycle, the cycles before it deleted: TTree
\* AutoSave, and Write with TObject.kOverwrite.
WriteOverwrite(keys, t) ==
    Append(SelectSeq(keys, LAMBDA k : k.name # t.name), Key(keys, t))

\* out_file_root.Write("", TObject.kOverwrite) of convert_table.py,
\* out_file_root.Write() of the two older files, for one tree of the file.
WriteTree(v, keys, t) ==
    IF v = "ct" THEN WriteOverwrite(keys, t) ELSE WriteKeep(keys, t)

RECURSIVE WriteAll(_, _, _)
\* TFile.Write: every tree in the file's list of objects is written.
WriteAll(v, keys, trees) ==
    IF trees = <<>> THEN keys
    ELSE WriteAll(v, WriteTree(v, keys, Head(trees)), Tail(trees))

(***************************************************************************)
(* convert_table, step by step.                                            *)
(***************************************************************************)
\* The file names and the names argument are normalized.
Normalize ==
    /\ pc = "start"
    /\ input_filename' = ResolveInput(args.input_filename).input
    /\ output_filename' =
           ResolveOutput(ResolveInput(args.input_filename).base, args.output_filename)
    /\ names' = NormalizeNames(args.names)
    /\ pc' = "open"
    /\ UNCHANGED <<inputs, disk, run, err, in_open, out_open, tblIdx, tree, dir,
                   n_entries, index, hits, column_data, bindIdx, autosaves, first, junk>>

\* tb.open_file(input_filename, 'r') and TFile(output_filename, 'RECREATE'):
\* the output file is created, or truncated if it exists.
OpenFiles ==
    /\ pc = "open"
    /\ input_filename \in h5files
    /\ in_open' = "open"
    /\ out_open' = "open"
    /\ disk' = [exists |-> TRUE, keys |-> <<>>]
    /\ pc' = "table"
    /\ UNCHANGED <<inputs, run, err, input_filename, output_filename, names,
                   tblIdx, tree, dir, n_entries, index, hits, column_data,
                   bindIdx, autosaves, first, junk>>

\* tb.open_file raises: there is no such source file.
OpenFails ==
    /\ pc = "open"
    /\ input_filename \notin h5files
    /\ pc' = "raised"
    /\ err' = "IOError"
    /\ UNCHANGED <<inputs, disk, run, input_filename, output_filename, names,
                   in_open, out_open, tblIdx, tree, dir, n_entries, index, hits,
                   column_data, bindIdx, autosaves, first, junk>>

\* The head of the table loop: the loop ends, the table is skipped by the
\* names filter, or its tree is initialized (KeyError leaves the with block,
\* which closes the source file; out_file_root.Close() is not reached). The
\* tree of the table before may or may not stay in the file's list of objects
\* when the variable tree is bound anew.
NextTable ==
    /\ pc = "table"
    /\ IF tblIdx > Len(h5)
       THEN /\ pc' = "close"
            /\ UNCHANGED <<tblIdx, tree, dir, n_entries, index, err, in_open>>
       ELSE IF Skipped(names, h5[tblIdx])
       THEN /\ tblIdx' = tblIdx + 1
            /\ UNCHANGED <<pc, tree, dir, n_entries, index, err, in_open>>
       ELSE LET r == init_tree_from_table(variant, h5[tblIdx], args.chunk_size)
            IN  /\ tree' = r.tree
                /\ n_entries' = r.n_entries
                /\ \E keep \in (IF tree = NoTree THEN {FALSE} ELSE BOOLEAN) :
                       dir' = IF keep THEN Append(dir, tree) ELSE dir
                /\ index' = 0
                /\ IF r.raised
                   THEN pc' = "raised" /\ err' = KeyError /\ in_open' = "closed"
                   ELSE pc' = "chunk" /\ UNCHANGED <<err, in_open>>
                /\ UNCHANGED tblIdx
    /\ UNCHANGED <<inputs, disk, run, input_filename, output_filename, names,
                   out_open, hits, column_data, bindIdx, autosaves, first, junk>>

\* The head of the chunk loop, range(0, table.shape[0], chunk_size), which
\* raises ValueError for a step of zero and is empty for a negative step; then
\* the read of the chunk and the new dict of column buffers.
ReadChunk ==
    /\ pc = "chunk"
    /\ IF args.chunk_size = 0
       THEN /\ pc' = "raised"
            /\ err' = "ValueError"
            /\ in_open' = "closed"
            /\ UNCHANGED <<hits, column_data, bindIdx>>
       ELSE IF args.chunk_size > 0 /\ index < h5[tblIdx].nrows
       THEN /\ hits' = ReadRows(h5[tblIdx], index, args.chunk_size)
            /\ column_data' = NoData
            /\ bindIdx' = 1
            /\ pc' = "bind"
            /\ UNCHANGED <<err, in_open>>
       ELSE /\ pc' = "write"
            /\ UNCHANGED <<err, in_open, hits, column_data, bindIdx>>
    /\ UNCHANGED <<inputs, disk, run, input_filename, output_filename, names,
                   out_open, tblIdx, tree, dir, n_entries, index, autosaves, first, junk>>

\* One pass of the column loop: the column's buffer is put into the dict and
\* the branch's address is set to it. The oldest file loops over the branches
\* and passes those named 'n_entries'.
BindColumn ==
    /\ pc = "bind"
    /\ LET targets == BindTargets(variant, h5[tblIdx], tree)
           name == targets[bindIdx]
           b == BindBranch(variant, tree, name, bindIdx)
       IN  /\ IF variant = "old" /\ name = "n_entries"
              THEN UNCHANGED <<column_data, tree>>
              ELSE /\ column_data' =
                          (name :> CopyColumn(variant, h5[tblIdx], hits, name)) @@ column_data
                   /\ tree' = [tree EXCEPT !.branches[b].addr = BufAddr(name, hits.start)]
           /\ IF bindIdx = Len(targets)
              THEN pc' = "setlen" /\ bindIdx' = 1
              ELSE pc' = "bind" /\ bindIdx' = bindIdx + 1
    /\ UNCHANGED <<inputs, disk, run, err, input_filename, output_filename, names,
                   in_open, out_open, tblIdx, dir, n_entries, index, hits, autosaves,
                   first, junk>>

\* The length of the chunk is stored in the ctypes variable.
SetLength ==
    /\ pc = "setlen"
    /\ n_entries' = NewLength(variant, n_entries, hits, h5[tblIdx], args.chunk_size)
    /\ pc' = "fill"
    /\ UNCHANGED <<inputs, disk, run, err, input_filename, output_filename, names,
                   in_open, out_open, tblIdx, tree, dir, index, hits, column_data,
                   bindIdx, autosaves, first, junk>>

\* tree.Fill(): one record is committed from the addresses of the branches;
\* the tree may save itself to the file (AutoSave). The chunk loop steps on.
Fill ==
    /\ pc = "fill"
    /\ \E o \in FillOutcomes(tree, n_entries, column_data, junk) :
       /\ junk' = o.junk
       /\ IF o.crash
         THEN /\ pc' = "crashed"
              /\ err' = "Crash"
              /\ UNCHANGED <<tree, disk, autosaves, index>>
         ELSE \E save \in (IF autosaves < MaxAutoSave THEN BOOLEAN ELSE {FALSE}) :
                LET filled == [tree EXCEPT !.entries = Append(@, o.rec)]
                IN  /\ tree' = filled
                    /\ disk' = IF save
                               THEN [disk EXCEPT !.keys = WriteOverwrite(@, filled)]
                               ELSE disk
                    /\ autosaves' = IF save THEN autosaves + 1 ELSE autosaves
                    /\ index' = index + args.chunk_size
                    /\ pc' = "chunk"
                    /\ UNCHANGED err
    /\ UNCHANGED <<inputs, run, input_filename, output_filename, names, in_open,
                   out_open, tblIdx, dir, n_entries, hits, column_data, bindIdx, first>>

\* out_file_root.Write(...) after the chunk loop; the table loop steps on.
WriteFile ==
    /\ pc = "write"
    /\ disk' = [disk EXCEPT !.keys = WriteAll(variant, @, Append(dir, tree))]
    /\ tblIdx' = tblIdx + 1
    /\ pc' = "table"
    /\ UNCHANGED <<inputs, run, err, input_filename, output_filename, names,
                   in_open, out_open, tree, dir, n_entries, index, hits,
                   column_data, bindIdx, autosaves, first, junk>>

\* out_file_root.Close() and the end of the with block.
CloseFiles ==
    /\ pc = "close"
    /\ out_open' = "closed"
    /\ in_open' = "closed"
    /\ pc' = "done"
    /\ UNCHANGED <<inputs, disk, run, err, input_filename, output_filename, names,
                   tblIdx, tree, dir, n_entries, index, hits, column_data,
                   bindIdx, autosaves, first, junk>>

\* convert_table is called again with the same arguments.
Rerun ==
    /\ pc = "done"
    /\ run = 1
    /\ run' = 2
    /\ pc' = "start"
    /\ err' = ""
    /\ input_filename' = <<>>
    /\ output_filename' = <<>>
    /\ names' = NoNames
    /\ in_open' = "never"
    /\ out_open' = "never"
    /\ tblIdx' = 1
    /\ tree' = NoTree
    /\ dir' = <<>>
    /\ n_entries' = <<>>
    /\ index' = 0
    /\ hits' = NoHits
    /\ column_data' = NoData
    /\ bindIdx' = 1
    /\ autosaves' = 0
    /\ first' = disk.keys
    /\ junk' = <<>>
    /\ UNCHANGED <<inputs, disk>>

Next ==
    \/ Normalize
    \/ OpenFiles
    \/ OpenFails
    \/ NextTable
    \/ ReadChunk
    \/ BindColumn
    \/ SetLength
    \/ Fill
    \/ WriteFile
    \/ CloseFiles
    \/ Rerun

Spec == Init /\ [][Next]_vars

(***************************************************************************)
(* The file names: convert_table over input and output paths, with a       *)
(* source container of one table that exists under a few names.            *)
(***************************************************************************)
PathFiles ==
    { Input \o ExtH5, <<"a">> \o ExtH5, <<"a", ".", "H", "5">>,
      <<"a", "/", "a">> \o ExtH5, <<"h", "5">> \o ExtH5 }

InitPath ==
    /\ variant = "ct"
    /\ h5 = <<Table("A", XY, 2)>>
    /\ h5files = PathFiles
    /\ args \in [input_filename : InputPaths,
                 output_filename : OutputPaths,
                 names : { NoNames },
                 chunk_size : { MaxChunk }]
    /\ disk = NoFile
    /\ run = 1
    /\ first = <<>>
    /\ Fresh

SpecPath == InitPath /\ [][Next]_vars

(***************************************************************************)
(* Vocabulary of the properties, independent of the code's own operators.  *)
(***************************************************************************)
\* Whether name n passes the filter F: no filter, the single name, or a
\* member of the collection.
InFilter(F, n) ==
    CASE F.kind = "none" -> TRUE
      [] F.kind = "str" -> n = F.items[1]
      [] OTHER -> \E k \in 1..Len(F.items) : F.items[k] = n

\* The source tables the arguments select, by position and by name.
Selected == { i \in 1..Len(h5) : InFilter(args.names, h5[i].name) }

SelectedNames == { h5[i].name : i \in Selected }

KeyNames(keys) == { keys[k].name : k \in 1..Len(keys) }

KeysOf(keys, n) == { k \in 1..Len(keys) : keys[k].name = n }

Unsupported(table) ==
    \E j \in 1..Len(table.cols) : table.cols[j].dtype \notin SupportedTypes

DistinctNames(table) == "n_entries" \notin Range(ColumnNames(table))

\* The positions in a key's branches of the data branches, in order.
DataOf(key) ==
    SelectSeq([b \in 1..Len(key.branches) |-> b],
              LAMBDA b : key.branches[b].role = "data")

\* Branch j (of the data branches) of a key reassembled: of every record the
\* first length elements, concatenated in record order.
Reassembled(key, j) ==
    Flatten([k \in 1..Len(key.entries) |->
               IF key.entries[k].len = <<>> \/ j > Len(key.entries[k].arrays)
               THEN <<>>
               ELSE Take(key.entries[k].arrays[j], key.entries[k].len[1])])

\* A key holds column j of the table: the j-th data branch has the column's
\* name, a type code of the column's kind and width, and its values.
HoldsColumn(key, table, j) ==
    /\ j <= Len(DataOf(key))
    /\ LET b == key.branches[DataOf(key)[j]]
       IN  /\ b.name = table.cols[j].name
           /\ RootKind(b.code) = NumpyKind(table.cols[j].dtype)
           /\ RootWidth(b.code) = get_c_type_descriptor(table.cols[j].dtype)
    /\ Reassembled(key, j) = ColumnData(table, j)

RoundTripOf(i) ==
    /\ KeysOf(disk.keys, h5[i].name) # {}
    /\ \A k \in KeysOf(disk.keys, h5[i].name) :
         \A j \in 1..Len(h5[i].cols) : HoldsColumn(disk.keys[k], h5[i], j)

Ceil(r, c) == (r + c - 1) \div c

\* The records of a tree are the chunks of a table of r rows: ceil(r / c)
\* records, record k (from 1) of length min(c, r - (k - 1) * c).
ChunksOf(t, r, c) ==
    /\ Len(t.entries) = Ceil(r, c)
    /\ \A k \in 1..Len(t.entries) : t.entries[k].len = <<Min(c, r - (k - 1) * c)>>

\* The tree mirrors the table: its name, the length branch first, one branch
\* per column in the columns' order, all names distinct.
Mirrors(t, table) ==
    /\ t.name = table.name
    /\ Len(t.branches) = Len(table.cols) + 1
    /\ t.branches[1].role = "len"
    /\ \A j \in 1..Len(table.cols) :
         /\ t.branches[j + 1].role = "data"
         /\ t.branches[j + 1].name = table.cols[j].name
    /\ \A a, b \in 1..Len(t.branches) :
         t.branches[a].name = t.branches[b].name => a = b

\* The names and records of the keys, without the cycle numbers.
Content(keys) ==
    { [name |-> keys[k].name, entries |-> keys[k].entries] : k \in 1..Len(keys) }

OneRevision(keys) ==
    \A a, b \in 1..Len(keys) : keys[a].name = keys[b].name => a = b

\* At a fill every data branch is bound to the copy made for this chunk of its
\* own column, which holds the chunk's values; the length is the chunk's.
BuffersValid ==
    /\ \A b \in 1..Len(tree.branches) :
         tree.branches[b].role = "data" =>
           LET a == tree.branches[b].addr
           IN  /\ a = BufAddr(tree.branches[b].name, hits.start)
               /\ Live(a, column_data)
               /\ ~column_data[a.col].view
               /\ column_data[a.col].bytes =
                      Flatten(HitsColumn(h5[tblIdx], hits, tree.branches[b].name))
    /\ HasLength(tree)
    /\ tree.branches[LengthIndex(tree)].addr = VarAddr
    /\ n_entries = <<hits.n>>

\* The start of the extension of a path: its last dot, when no separator
\* follows it and a character other than a dot precedes it in the last
\* component of the path; 0 for a path without an extension.
ExtStart(p) ==
    LET starts == { k \in 1..Len(p) :
                      /\ p[k] = "."
                      /\ \A m \in (k + 1)..Len(p) : p[m] \notin {".", "/"}
                      /\ \E m \in 1..(k - 1) :
                           /\ p[m] # "."
                           /\ \A n \in m..(k - 1) : p[n] # "/" }
    IN  IF starts = {} THEN 0 ELSE CHOOSE k \in starts : TRUE

\* Whether the extension of p is e, letter case and white space at its end
\* aside.
IsExt(p, e) ==
    /\ ExtStart(p) # 0
    /\ LET x == SubSeq(p, ExtStart(p), Len(p))
       IN  /\ Len(x) >= Len(e)
           /\ \A i \in 1..Len(e) : LowerChar(x[i]) = e[i]
           /\ \A i \in (Len(e) + 1)..Len(x) : x[i] = " "

WithoutExt(p) == SubSeq(p, 1, ExtStart(p) - 1)

IsPrefix(p, q) == Len(p) <= Len(q) /\ SubSeq(q, 1, Len(p)) = p

(***************************************************************************)
(* Properties.                                                             *)
(***************************************************************************)
\* C1: round-trip column identity. After convert_table of convert_table.py
\* has finished with a chunk size of at least 1, every selected table of
\* supported column types has a structure in the output, and every column of
\* it is reproduced by the first length[k] elements of its branch of every
\* record k, concatenated in record order.
RoundTripColumnIdentity ==
    (variant = "ct" /\ pc = "done" /\ args.chunk_size >= 1) =>
        \A i \in Selected : ~Unsupported(h5[i]) => RoundTripOf(i)

\* C1, for the tables none of whose columns is named like the length branch.
RoundTripDistinctNames ==
    (variant = "ct" /\ pc = "done" /\ args.chunk_size >= 1) =>
        \A i \in Selected :
            (~Unsupported(h5[i]) /\ DistinctNames(h5[i])) => RoundTripOf(i)

\* C2: chunk count and lengths. When the chunk loop of a table of R rows has
\* ended, with a chunk size C of at least 1, the tree has ceil(R / C) records
\* and record k (from 0) was committed with the length min(C, R - k * C).
ChunkCountAndLengths ==
    (variant = "ct" /\ pc = "write" /\ args.chunk_size >= 1) =>
        ChunksOf(tree, h5[tblIdx].nrows, args.chunk_size)

\* C2, for the tables none of whose columns is named like the length branch.
ChunkCountDistinctNames ==
    (variant = "ct" /\ pc = "write" /\ args.chunk_size >= 1
       /\ DistinctNames(h5[tblIdx])) =>
        ChunksOf(tree, h5[tblIdx].nrows, args.chunk_size)

\* C3: schema mirroring. In convert_table.py, called with a chunk size of at
\* least 1, the tree of every processed table is named after the table and
\* has the length branch first, then one branch per column with the columns'
\* names in their order, and no two branches of the same name.
SchemaMirroring ==
    (variant = "ct" /\ args.chunk_size >= 1
       /\ pc \in {"chunk", "bind", "setlen", "fill", "write"}) =>
        Mirrors(tree, h5[tblIdx])

\* C4: name filter. When convert_table has finished, the structures of the
\* output are those of the tables whose name passes the filter (every table
\* without a filter, a single name like the collection holding it); the output
\* never holds another structure; and an error is never raised for a table
\* that the filter does not select, so a name that matches no table raises
\* nothing.
NameFilter ==
    /\ pc = "done" => KeyNames(disk.keys) = SelectedNames
    /\ (run = 2 \/ out_open # "never") => KeyNames(disk.keys) \subseteq SelectedNames
    /\ (pc \in {"raised", "crashed"} /\ err # "IOError") => tblIdx \in Selected
    /\ (in_open # "never" /\ Selected = {}) => pc \notin {"raised", "crashed"}

NameFilterWitness ==
    /\ pc = "done"
    /\ Len(h5) = 3
    /\ args.names = [kind |-> "tuple", items |-> <<"B", "Z">>]
    /\ KeyNames(disk.keys) = {"B"}
    /\ err = ""

\* C5: unsupported type rejection. For a selected table with a column of a
\* type outside the eleven supported types: the output never holds a structure
\* of that table's name, convert_table does not finish, and a run with a chunk
\* size of at least 1 that has opened the source ends with KeyError (the
\* error of the type table) raised for a table with such a column.
UnsupportedTypeRejected ==
    \A i \in Selected :
        Unsupported(h5[i]) =>
            /\ h5[i].name \notin KeyNames(disk.keys)
            /\ pc \notin {"close", "done"}
            /\ (pc \in {"raised", "crashed"} /\ in_open # "never"
                  /\ args.chunk_size >= 1) =>
                   /\ pc = "raised"
                   /\ err = KeyError
                   /\ tblIdx \in Selected
                   /\ Unsupported(h5[tblIdx])

UnsupportedTypeWitness ==
    /\ pc = "raised"
    /\ err = KeyError
    /\ Len(h5) = 2
    /\ tblIdx = 2
    /\ Unsupported(h5[2])
    /\ ~Unsupported(h5[1])
    /\ KeyNames(disk.keys) = {"A"}
    /\ tree.name = "B"
    /\ Len(tree.branches) = 2

\* C6: invalid chunk size. With a chunk size of zero or less convert_table
\* of convert_table.py opens no container, leaves the output path as it was, does not finish, and
\* what it raises is InvalidArgument.
InvalidChunkSize ==
    (variant = "ct" /\ args.chunk_size <= 0) =>
        /\ in_open = "never"
        /\ out_open = "never"
        /\ pc # "done"
        /\ pc = "raised" => err = "InvalidArgument"

\* C7: cleanup on every exit path. When convert_table of convert_table.py,
\* called with a chunk size of at least 1, has returned or raised, neither the
\* source container nor the destination container is open.
ClosedOnEveryExit ==
    (variant = "ct" /\ args.chunk_size >= 1 /\ pc \in {"done", "raised"}) =>
        (in_open # "open" /\ out_open # "open")

\* C8: idempotent re-run with overwrite. With a chunk size of at least 1, in
\* convert_table.py and PyTables2RootTTree/PyTables2RootTTree.py: after the
\* write at the end of a table, and when convert_table has finished, the
\* output holds one revision per structure name; after the second run with
\* the same arguments its structures and records are those the first run left.
IdempotentRerun ==
    (variant \in {"ct", "pkg"} /\ args.chunk_size >= 1) =>
        /\ pc \in {"table", "close", "done"} => OneRevision(disk.keys)
        /\ (run = 2 /\ pc = "done") => Content(disk.keys) = Content(first)

\* C8, for convert_table.py and the tables none of whose columns is named
\* like the length branch.
IdempotentRerunDistinctNames ==
    (variant = "ct" /\ \A i \in Selected : DistinctNames(h5[i])) =>
        /\ pc \in {"table", "close", "done"} => OneRevision(disk.keys)
        /\ (run = 2 /\ pc = "done") => Content(disk.keys) = Content(first)

\* C9: extension normalization. The file convert_table reads is the input
\* path when its extension is .h5 (letter case and trailing white space
\* aside) and the input path with .h5 appended otherwise; the file it writes
\* is the input path without its .h5 extension, with .root appended, when no
\* output path is given, and the given output path, with .root appended
\* unless that is its extension, otherwise. The path given is kept as the
\* start of the path used. So 'input' and 'input.h5' read input.h5 and write
\* input.root.
ExtensionNormalization ==
    pc # "start" =>
        LET p == args.input_filename
            o == args.output_filename
        IN  /\ input_filename = IF IsExt(p, ExtH5) THEN p ELSE p \o ExtH5
            /\ output_filename =
                   IF o.given
                   THEN IF IsExt(o.path, ExtRoot) THEN o.path ELSE o.path \o ExtRoot
                   ELSE (IF IsExt(p, ExtH5) THEN WithoutExt(p) ELSE p) \o ExtRoot
            /\ IsPrefix(p, input_filename)
            /\ o.given => IsPrefix(o.path, output_filename)
            /\ in_open # "never" => input_filename \in h5files
            /\ (p \in {Input, Input \o ExtH5} /\ ~o.given) =>
                   /\ input_filename = Input \o ExtH5
                   /\ output_filename = Input \o ExtRoot

ExtensionNormalizationWitness ==
    /\ pc = "done"
    /\ args.input_filename = Input
    /\ ~args.output_filename.given
    /\ input_filename = Input \o ExtH5
    /\ output_filename = Input \o ExtRoot
    /\ disk.exists

\* C10: buffer validity at commit. In convert_table.py, at every fill every
\* data branch of the tree is bound to the buffer that was copied for the
\* current chunk from its own column and holds the chunk's values of that
\* column, and the length branch reads the variable that holds the chunk's
\* row count.
BufferValidAtFill ==
    (variant = "ct" /\ pc = "fill") => BuffersValid

\* C10, for the tables none of whose columns is named like the length branch.
BufferValidDistinctNames ==
    (variant = "ct" /\ pc = "fill" /\ DistinctNames(h5[tblIdx])) => BuffersValid

=============================================================================
